---- MODULE Spec2Model ----
(***************************************************************************)
(* Belo2022CryptoSwapper: the swap model (src/model/Swap.ts), the swapper  *)
(* routes (src/routes/Swapper.ts) and the order books the OKEx service     *)
(* returns (services/Okex.service.ts).                                     *)
(*                                                                         *)
(* Number representation.                                                  *)
(*   A decimal string or config number ("36713.5", "1000", 2) is modelled  *)
(*   by its value in ten-thousandths: "36713.5" is 367135000.              *)
(*   A currency.js value (precision 2) is modelled by its intValue, the    *)
(*   integer number of hundredths: currency("36713.5").intValue = 3671350. *)
(*   Dates are milliseconds.                                               *)
(***************************************************************************)
EXTENDS Integers, Sequences, FiniteSets

VARIABLES
    fees,        \* config swapper.fees: side -> fee percent (decimal number)
    now,         \* the clock read by new Date()
    pc,          \* position of the createSwapOrder handler
    swap,        \* the Swap object of the handler
    orderbooks,  \* the OrderBooks updatePriceOffer got from getMarketBooks
    walk,        \* the loop's locals, one record per iteration run
    repository,  \* the swaps saveSwap has stored, in order
    request,     \* the last request received
    response,    \* the answer to it
    received     \* number of /createSwapOrder requests received

vars == <<fees, now, pc, swap, orderbooks, walk, repository, request, response,
          received>>

----------------------------------------------------------------------------
(* Bounds of the model *)

MaxLevels == 3      \* longest order-book side drawn
MaxVolume == 3      \* largest requested volume drawn, in whole units
MaxRequests == 2    \* createSwapOrder requests served
MaxNow == 45000     \* last clock value
TickMs == 15000     \* the clock advances in steps of TickMs

(* Program constants *)

offerTime == 30000  \* config swapper.offerTime, milliseconds

undefined == 0 - 1  \* an optional field of Swap that is not set

Sides == {"buy", "sell"}

----------------------------------------------------------------------------
(* currency.js, precision 2 *)

Abs(x) == IF x < 0 THEN 0 - x ELSE x

\* parse(): the intValue of a number. The code scales the number by 100, cuts
\* it to four decimals with toFixed(4) (nearest, ties away from zero) and takes
\* Math.round (nearest, ties towards +infinity). The scaled number is n/d here
\* (d > 0): with |n/d| = q + r/d, 0 <= r < d, toFixed(4) leaves q and t
\* ten-thousandths.
parse(n, d) ==
    LET m == Abs(n)
        q == m \div d
        r == m % d
        t == (2 * r * 10000 + d) \div (2 * d)
    IN  IF n >= 0 THEN q + (IF t >= 5000 THEN 1 ELSE 0)
        ELSE 0 - (q + (IF t > 5000 THEN 1 ELSE 0))

\* currency(v) of a decimal string v (ten-thousandths): v/10000 scaled by 100
currency(v) == parse(v, 100)

\* a.add(b), a.subtract(b) of two currency values:
\* currency((a.intValue + b.intValue) / 100)
add(a, b) == parse(a + b, 1)
subtract(a, b) == parse(a - b, 1)

\* a.multiply(b), b coerced to its value b.intValue/100:
\* currency(a.intValue * (b.intValue/100) / 100)
multiply(a, b) == parse(a * b, 100)

\* a.divide(b): currency(a.intValue / b.intValue)
divide(a, b) == parse(a * 100, b)

\* c.format({symbol: '', separator: '', decimal: '.'}): the decimal string
\* with two decimals
format(c) == c * 100

----------------------------------------------------------------------------
(* Swap: src/model/Swap.ts *)

\* new Swap(pair, side, volume): the optional fields are not set
NewSwap(pair, side, volume) ==
    [id |-> undefined, pair |-> pair, side |-> side, volume |-> volume,
     providerPrice |-> undefined, price |-> undefined,
     start |-> undefined, expiration |-> undefined]

\* An Order is <<price, volume, liquidated, amount>>, four decimal strings.
\* The side of the books a swap consumes.
OrdersOf(side, books) == IF side = "buy" THEN books.asks ELSE books.bids

\* the nominal size less the liquidated orders
OrderVolumeNominal(orderSize, liquidatedOrders, amountOrders) ==
    subtract(multiply(orderSize, amountOrders), liquidatedOrders)

\* orderVolume of one order
OrderVolume(orderSize, liquidatedOrders, amountOrders) ==
    multiply(orderSize, subtract(amountOrders, liquidatedOrders))

\* buyAllOrder: the order does not cover what remains
BuyAllOrder(remainingVolume, orderVolume) ==
    subtract(remainingVolume, orderVolume) > 0

\* the check after the loop with its operands exchanged
NotEnoughOrdersSwapped(swapVolume, iVolume) == subtract(iVolume, swapVolume) > 0

\* the check after the loop
NotEnoughOrders(swapVolume, iVolume) == subtract(swapVolume, iVolume) > 0

\* The for loop from index i on. The result holds swapPrice and iVolume after
\* the loop and, for each iteration run, its locals.
RECURSIVE Loop(_, _, _, _, _, _)
Loop(orders, swapVolume, i, swapPrice, iVolume, locals) ==
    IF i > Len(orders)
    THEN [swapPrice |-> swapPrice, iVolume |-> iVolume, locals |-> locals]
    ELSE
        LET orderPrice == currency(orders[i][1])
            orderSize == currency(orders[i][2])
            liquidatedOrders == currency(orders[i][3])
            amountOrders == currency(orders[i][4])
            orderVolume == OrderVolume(orderSize, liquidatedOrders, amountOrders)
            remainingVolume == subtract(swapVolume, iVolume)
            buyAllOrder == BuyAllOrder(remainingVolume, orderVolume)
            boughtVolume == IF buyAllOrder THEN orderVolume ELSE remainingVolume
            swapPrice2 ==
                add(swapPrice, multiply(orderPrice, divide(boughtVolume, swapVolume)))
            iVolume2 == add(iVolume, boughtVolume)
            locals2 == Append(locals,
                [orderPrice |-> orderPrice, orderVolume |-> orderVolume,
                 remainingVolume |-> remainingVolume, buyAllOrder |-> buyAllOrder,
                 boughtVolume |-> boughtVolume])
        IN  IF ~buyAllOrder
            THEN [swapPrice |-> swapPrice2, iVolume |-> iVolume2, locals |-> locals2]
            ELSE Loop(orders, swapVolume, i + 1, swapPrice2, iVolume2, locals2)

\* applySwapFee(providerPrice) of a swap of the given side
applySwapFee(side, providerPrice, fee) ==
    LET hundred == currency(100 * 10000)
        feeFactor == IF side = "buy"
                     THEN divide(add(hundred, currency(fee)), hundred)
                     ELSE divide(subtract(hundred, currency(fee)), hundred)
    IN  multiply(providerPrice, feeFactor)

\* an expiration that is not counted from start
ExpirationAbsolute(start) == offerTime

\* expiration of an offer that starts at start
Expiration(start) == start + offerTime

NotEnoughMessage == "Not enough orders to fulfill the swap"

----------------------------------------------------------------------------
(* Inputs *)

Pair == "BTC-USDT"

\* The order books and the volumes of the API tests, an empty side, a side of
\* two levels, and a level with one of its two orders liquidated.
AsksFull == <<367135000, 151690000, 0, 10000>>   \* ['36713.5', '15169', '0', '1']
AsksThin == <<367135000, 150000, 0, 10000>>      \* ['36713.5', '15', '0', '1']
AsksHalf == <<367135000, 6000000, 10000, 20000>> \* ['36713.5', '600', '1', '2']
BidsFull == <<366870000, 171710000, 0, 10000>>   \* ['36687', '17171', '0', '1']
BidsThin == <<366870000, 170000, 0, 10000>>      \* ['36687', '17', '0', '1']

TestBooks ==
    [asks : {<<>>, <<AsksFull>>, <<AsksThin>>, <<AsksHalf>>,
             <<AsksThin, AsksFull>>},
     bids : {<<>>, <<BidsFull>>, <<BidsThin>>}]

TestVolumes == {150000, 10000000}                \* '15', '1000'

TestFees == [buy |-> 20000, sell |-> 20000]      \* 2 percent each way

\* Small order books: every side of at most MaxLevels orders.
SmallOrders ==
    {<<p, s, c[1], c[2]>> : p \in {1000000, 2000000}, s \in {10000, 20000},
                            c \in {<<0, 10000>>, <<10000, 20000>>}}

SeqsUpTo(S, n) == UNION {[1..k -> S] : k \in 0..n}

SmallBooks ==
    [asks : SeqsUpTo(SmallOrders, MaxLevels),
     bids : {<<>>, <<<<1000000, 10000, 0, 10000>>>>}]
    \cup
    [asks : {<<>>, <<<<1000000, 10000, 0, 10000>>>>},
     bids : SeqsUpTo(SmallOrders, MaxLevels)]

SmallVolumes == {v * 10000 : v \in 1..MaxVolume}

\* 2 percent one way and 2.5 percent the other
SmallFees == {[buy |-> 20000, sell |-> 25000], [buy |-> 25000, sell |-> 20000]}

----------------------------------------------------------------------------
(* Swapper: src/routes/Swapper.ts *)

Routes == {"/status", "/createSwapOrder"}

NoSwap == NewSwap("", "buy", 0)
NoBooks == [asks |-> <<>>, bids |-> <<>>]
NoRequest ==
    [path |-> "", swapId |-> undefined, gateway |-> "", at |-> 0, again |-> FALSE]
NoResponse == [kind |-> "none"]

HandlerRunning == pc \in {"pricing", "priced"}

\* a body that is the whole swap
ResponseBodyWhole(s) ==
    [id |-> s.id, pair |-> s.pair, side |-> s.side, volume |-> s.volume,
     providerPrice |-> s.providerPrice, price |-> s.price, start |-> s.start,
     expiration |-> s.expiration]

\* The body createSwapOrder sends
ResponseBody(s) ==
    [id |-> s.id, pair |-> s.pair, side |-> s.side, volume |-> s.volume,
     price |-> s.price, start |-> s.start, expiration |-> s.expiration]

\* saveSwap(swap): the repository stores the swap and assigns its id
saveSwap(repo, s) == Append(repo, [s EXCEPT !.id = Len(repo) + 1])

\* POST /createSwapOrder arrives: the handler builds the Swap and calls
\* updatePriceOffer, which awaits the order books.
ReceiveCreateSwapOrder(side, volume) ==
    /\ ~HandlerRunning
    /\ received < MaxRequests
    /\ received' = received + 1
    /\ request' = [path |-> "/createSwapOrder", swapId |-> undefined,
                   gateway |-> "", at |-> now, again |-> FALSE]
    /\ response' = NoResponse
    /\ swap' = NewSwap(Pair, side, volume)
    /\ orderbooks' = NoBooks
    /\ walk' = <<>>
    /\ pc' = "pricing"
    /\ UNCHANGED <<fees, now, repository>>

\* updatePriceOffer once getMarketBooks has returned books
UpdatePriceOffer(books) ==
    /\ pc = "pricing"
    /\ LET orders == OrdersOf(swap.side, books)
           swapVolume == currency(swap.volume)
           r == Loop(orders, swapVolume, 1, currency(0), currency(0), <<>>)
       IN  /\ orderbooks' = books
           /\ walk' = r.locals
           /\ IF NotEnoughOrders(swapVolume, r.iVolume)
              THEN /\ pc' = "failed"
                   /\ response' = [kind |-> "error", message |-> NotEnoughMessage]
                   /\ swap' = swap
              ELSE /\ pc' = "priced"
                   /\ response' = response
                   /\ swap' = [swap EXCEPT
                        !.providerPrice = format(r.swapPrice),
                        !.price = format(applySwapFee(swap.side, r.swapPrice,
                                                      fees[swap.side])),
                        !.start = now,
                        !.expiration = Expiration(now)]
    /\ UNCHANGED <<fees, now, repository, request, received>>

\* the rest of createSwapOrder: the swap is saved and the response sent
SaveSwapAndRespond ==
    /\ pc = "priced"
    /\ repository' = saveSwap(repository, swap)
    /\ swap' = repository'[Len(repository')]
    /\ response' = [kind |-> "ok", body |-> ResponseBody(swap')]
    /\ pc' = "done"
    /\ UNCHANGED <<fees, now, orderbooks, walk, request, received>>

\* /status
GetSwapperStatus ==
    /\ ~HandlerRunning
    /\ request' = [path |-> "/status", swapId |-> undefined, gateway |-> "",
                   at |-> now, again |-> FALSE]
    /\ response' = [kind |-> "status", text |-> "Swapper is alive"]
    /\ UNCHANGED <<fees, now, pc, swap, orderbooks, walk, repository, received>>

\* POST /confirmSwapOrder of the API tests: routes() registers no handler for
\* the path, so none runs. gateway is what placeOrder is stubbed to do; again
\* records that the request before was a confirmation of the same swap.
ReceiveConfirmSwapOrder(swapId, gateway) ==
    /\ ~HandlerRunning
    /\ "/confirmSwapOrder" \notin Routes
    /\ request' = [path |-> "/confirmSwapOrder", swapId |-> swapId,
                   gateway |-> gateway, at |-> now,
                   again |-> (request.path = "/confirmSwapOrder"
                              /\ request.swapId = swapId)]
    /\ response' = [kind |-> "noroute"]
    /\ UNCHANGED <<fees, now, pc, swap, orderbooks, walk, repository, received>>

\* time passes
Tick ==
    /\ now + TickMs <= MaxNow
    /\ now' = now + TickMs
    /\ UNCHANGED <<fees, pc, swap, orderbooks, walk, repository, request,
                   response, received>>

Init ==
    /\ fees = TestFees
    /\ now = 0
    /\ pc = "idle"
    /\ swap = NoSwap
    /\ orderbooks = NoBooks
    /\ walk = <<>>
    /\ repository = <<>>
    /\ request = NoRequest
    /\ response = NoResponse
    /\ received = 0

Next ==
    \/ \E side \in Sides, volume \in TestVolumes :
          ReceiveCreateSwapOrder(side, volume)
    \/ \E books \in TestBooks : UpdatePriceOffer(books)
    \/ SaveSwapAndRespond
    \/ GetSwapperStatus
    \/ \E swapId \in 1..MaxRequests, gateway \in {"ok", "reject"} :
          ReceiveConfirmSwapOrder(swapId, gateway)
    \/ Tick

Spec == Init /\ [][Next]_vars

\* Pricing alone: one swap and the books it is priced against are drawn from
\* the small sets, and updatePriceOffer runs on them.
InitPricing ==
    /\ fees \in SmallFees
    /\ now = 0
    /\ pc = "pricing"
    /\ \E side \in Sides, volume \in SmallVolumes :
          swap = NewSwap(Pair, side, volume)
    /\ orderbooks \in SmallBooks
    /\ walk = <<>>
    /\ repository = <<>>
    /\ request = [path |-> "/createSwapOrder", swapId |-> undefined,
                  gateway |-> "", at |-> 0, again |-> FALSE]
    /\ response = NoResponse
    /\ received = 1

NextPricing == UpdatePriceOffer(orderbooks)

SpecPricing == InitPricing /\ [][NextPricing]_vars

----------------------------------------------------------------------------
(* What the properties are stated with. Nothing below is used by the model. *)

Min(a, b) == IF a < b THEN a ELSE b

\* hundredths of a decimal string of at most two decimals
Cents(v) == v \div 100

\* the side of the fetched books the swap trades against
ChosenSide == IF swap.side = "buy" THEN orderbooks.asks ELSE orderbooks.bids

Priced == pc \in {"priced", "failed", "done"}

\* size * (amount - liquidated) of an order, in hundredths; the counts are
\* whole numbers
AvailableCounted(o) == Cents(o[2]) * ((Cents(o[4]) - Cents(o[3])) \div 100)

\* size * amount - liquidated of an order, in hundredths
AvailableNominal(o) == (Cents(o[2]) * Cents(o[4])) \div 100 - Cents(o[3])

RECURSIVE Depth(_)
Depth(orders) ==
    IF orders = <<>> THEN 0
    ELSE AvailableCounted(orders[1]) + Depth(Tail(orders))

RECURSIVE SumBought(_)
SumBought(locals) ==
    IF locals = <<>> THEN 0
    ELSE locals[1].boughtVolume + SumBought(Tail(locals))

\* sum of price * bought volume over the iterations, in ten-thousandths
RECURSIVE SumPriceVolume(_)
SumPriceVolume(locals) ==
    IF locals = <<>> THEN 0
    ELSE locals[1].orderPrice * locals[1].boughtVolume
         + SumPriceVolume(Tail(locals))

Consumed == {i \in DOMAIN walk : walk[i].boughtVolume > 0}

FieldsSet(s) ==
    /\ s.providerPrice # undefined
    /\ s.price # undefined
    /\ s.start # undefined
    /\ s.expiration # undefined

FieldsUnset(s) ==
    /\ s.providerPrice = undefined
    /\ s.price = undefined
    /\ s.start = undefined
    /\ s.expiration = undefined

Range(f) == {f[i] : i \in DOMAIN f}

Stored(id) == id \in 1..Len(repository)

\* what placeOrder is stubbed to throw in the API test
GatewayMessage == "Order placement failed due to insufficient balance"

Confirming == request.path = "/confirmSwapOrder" /\ Stored(request.swapId)

----------------------------------------------------------------------------
(* Properties *)

C2_WeightedAverageBetween ==
    /\ (Priced /\ Depth(ChosenSide) >= Cents(swap.volume)) => pc = "priced"
    /\ pc = "priced" =>
          /\ SumBought(walk) = Cents(swap.volume)
          /\ \E i, j \in Consumed :
                /\ walk[i].orderPrice <= Cents(swap.providerPrice)
                /\ Cents(swap.providerPrice) <= walk[j].orderPrice

\* C3: a swap, in the handler or in the repository, has none or all of
\* providerPrice, price, start and expiration set; the handler's swap has them
\* set exactly when pricing has succeeded, which needs the chosen side to
\* cover the volume; and when set, expiration is start plus offerTime.
C3_SetTogether ==
    /\ \A s \in {swap} \cup Range(repository) :
          /\ FieldsSet(s) \/ FieldsUnset(s)
          /\ FieldsSet(s) => s.expiration = s.start + offerTime
    /\ FieldsSet(swap) <=> pc \in {"priced", "done"}
    /\ FieldsSet(swap) => Depth(ChosenSide) >= Cents(swap.volume)

\* C3 happens: a swap priced after the clock had advanced is saved with its
\* four fields, and another request is being priced with none of them.
C3_Witness ==
    /\ Len(repository) = 1
    /\ repository[1].start > 0
    /\ repository[1].expiration = repository[1].start + offerTime
    /\ repository[1].price # undefined
    /\ pc = "pricing"
    /\ FieldsUnset(swap)

\* C4: a confirmation of a stored swap received at or after its expiration is
\* answered with the not-confirmable error, whatever the gateway would do; one
\* received before its expiration succeeds when the gateway does.
C4_ExpiryOnConfirm ==
    Confirming =>
        LET s == repository[request.swapId]
        IN  IF request.at >= s.expiration
            THEN response.kind = "notConfirmable"
            ELSE request.gateway = "ok" => response.kind = "confirmed"

\* C5: a confirmation of a stored swap that is already Confirmed, ConfirmFailed
\* or Expired (it was the subject of the confirmation before, or its
\* expiration has passed) is answered with the not-confirmable error.
C5_TerminalStates ==
    (Confirming /\ (request.again
                    \/ request.at >= repository[request.swapId].expiration))
        => response.kind = "notConfirmable"

\* C6: a confirmation of a stored, unexpired swap that the gateway rejects is
\* answered with the gateway's error; one the gateway accepts is answered with
\* the confirmed swap and an execution time equal to the time of the request.
C6_GatewayOutcome ==
    (Confirming /\ ~request.again
                /\ request.at < repository[request.swapId].expiration) =>
        IF request.gateway = "reject"
        THEN response.kind = "error" /\ response.message = GatewayMessage
        ELSE response.kind = "confirmed" /\ response.execution = request.at

\* C7: the body of a successful createSwapOrder response has exactly the
\* fields id, pair, side, volume, price, start and expiration, with the values
\* of the saved swap; providerPrice is not among them.
C7_PublicFields ==
    response.kind = "ok" =>
        /\ DOMAIN response.body =
              {"id", "pair", "side", "volume", "price", "start", "expiration"}
        /\ "providerPrice" \notin DOMAIN response.body
        /\ Stored(response.body.id)
        /\ \A f \in DOMAIN response.body :
              response.body[f] = repository[response.body.id][f]

\* C7 happens: the buy of volume 1000 of the API test is answered with price
\* 37447.77 while the swap holds the provider price 36713.5.
C7_Witness ==
    /\ response.kind = "ok"
    /\ response.body.price = 374477700
    /\ swap.providerPrice = 367135000

\* C8: the provider price is the exact sum over the levels of price times
\* bought volume, divided by the requested volume, rounded once: it is within
\* half a hundredth of the exact value.
C8_RoundedOnce ==
    pc = "priced" =>
        2 * Abs(Cents(swap.providerPrice) * Cents(swap.volume)
                - SumPriceVolume(walk)) <= Cents(swap.volume)

\* C9: the offered price is providerPrice * (100 + fee) / 100 for a buy and
\* providerPrice * (100 - fee) / 100 for a sell, fee being the configured
\* percent of the swap's side: it is within half a hundredth of that value.
C9_FeeFormula ==
    pc = "priced" =>
        LET fee == Cents(fees[swap.side])
            factor == IF swap.side = "buy" THEN 10000 + fee ELSE 10000 - fee
        IN  2 * Abs(Cents(swap.price) * 10000
                    - Cents(swap.providerPrice) * factor) <= 10000

====
